---- MODULE Spec2Model ----
(***************************************************************************)
(* A model of src/src/biosim/island.py: the Island class (terraform,       *)
(* add_population, n_animals, the six phases of yearly_cycle) and the Cell *)
(* class (add_animal, reset_fodder).                                       *)
(*                                                                         *)
(* Python values are written as follows.  A str is the tuple of its        *)
(* characters.  A text with line breaks is held as the tuple of its lines  *)
(* (str.split("\n") of the text is exactly that tuple, and the text is the *)
(* lines joined by "\n").  A list is a tuple; Python's 0-based index k is  *)
(* the tuple's index k+1.  A dict with string keys is a record, and a key  *)
(* is in the dict iff it is in the record's DOMAIN.  "No exception" is the *)
(* string "None".  An age or weight that may be None is the one-element    *)
(* tuple of the number, and None the empty tuple.  A value whose Python    *)
(* type decides what an operator does carries that type in a field "type". *)
(***************************************************************************)
EXTENDS Integers, Sequences, FiniteSets, TLC

VARIABLES
    geography,    \* the text handed to Island(...), as its lines
    built,        \* TRUE once Island.__init__ has returned an object
    terrain,      \* self.terrain
    coordinates,  \* self.coordinates
    cells,        \* self.cells, a matrix of Cell objects
    pc,           \* the phase yearly_cycle is in ("Idle": no call in progress)
    exc,          \* the exception the last operation raised to its caller, or "None"
    N,            \* the local N of the last procreate() call
    visited,      \* the animals whose birth test (line 233) the last procreate() evaluated
    op,           \* the last operation called
    given,        \* what the argument of the last add_population call held
    prev          \* self.cells when yearly_cycle or feed was last called

vars == <<geography, built, terrain, coordinates, cells, pc, exc, N, visited,
          op, given, prev>>

None == "None"

\* ---------------------------------------------------------------- bounds

MaxRows == 3
MaxCols == 3
MaxOdd == 1
MaxBatch == 2
MaxAnimals == 2

\* ------------------------------------------------------------- utilities

Range(s) == {s[i] : i \in 1..Len(s)}

Min(S) == CHOOSE x \in S : \A y \in S : x <= y

RECURSIVE SumSeq(_)
SumSeq(s) == IF s = <<>> THEN 0 ELSE Head(s) + SumSeq(Tail(s))

\* ------------------------------------------------ textwrap.dedent (stdlib)

Whitespace == {" "}

IsBlank(line) == \A k \in 1..Len(line) : line[k] \in Whitespace

RECURSIVE Indent(_)
Indent(line) ==
    IF line # <<>> /\ Head(line) \in Whitespace THEN 1 + Indent(Tail(line)) ELSE 0

\* The common leading whitespace of the lines that are not blank.
Margin(lines) ==
    LET solid == {i \in 1..Len(lines) : ~IsBlank(lines[i])}
    IN  IF solid = {} THEN 0 ELSE Min({Indent(lines[i]) : i \in solid})

\* Blank lines become empty, the margin is cut from the others.
dedent(lines) ==
    LET margin == Margin(lines)
    IN  [i \in 1..Len(lines) |->
            IF IsBlank(lines[i]) THEN <<>>
            ELSE SubSeq(lines[i], margin + 1, Len(lines[i]))]

\* ------------------------------------------------------------------ Cell

\* A cell without the attribute fodder; <<f>> is a cell whose fodder is f.
NoFodder == <<>>

\* Cell.__init__: two empty lists; no fodder attribute is set.
Cell == [Herbivores |-> <<>>, Carnivores |-> <<>>, fodder |-> NoFodder]

ValidTerrain == {"W", "L", "H", "D"}

\* ------------------------------------------------------- Island.terraform

\* terraform without the check of the first and the last row (lines 145-147).
terraform_rows_unchecked(geo) ==
    LET t == dedent(geo)
        X == Len(t)
        Y == Len(t[1])
        failed(e) == [exc |-> e, terrain |-> <<>>, coordinates |-> <<>>, cells |-> <<>>]
    IN  IF \E i \in 1..X : Len(t[i]) # Y
            THEN failed("ValueError")
        ELSE IF Y = 0
            THEN failed("IndexError")
        ELSE IF \E i \in 1..X : t[i][1] # "W" \/ t[i][Y] # "W"
            THEN failed("ValueError")
        ELSE IF \E i \in 1..X : \E j \in 1..Y : t[i][j] \notin ValidTerrain
            THEN failed("ValueError")
        ELSE [exc |-> None,
              terrain |-> t,
              coordinates |-> [k \in 1..(X * Y) |-> <<((k - 1) \div Y) + 1, ((k - 1) % Y) + 1>>],
              cells |-> [i \in 1..X |-> [j \in 1..Y |-> Cell]]]

\* The result of terraform: the exception it raises, or the terrain, the
\* coordinates and the cells it builds.
terraform(geo) ==
    LET t == dedent(geo)
        X == Len(t)
        Y == Len(t[1])
        failed(e) == [exc |-> e, terrain |-> <<>>, coordinates |-> <<>>, cells |-> <<>>]
    IN  IF \E i \in 1..X : Len(t[i]) # Y
            THEN failed("ValueError")
        \* terrain[0][0] of an empty first row
        ELSE IF Y = 0
            THEN failed("IndexError")
        ELSE IF \E i \in 1..X : t[i][1] # "W" \/ t[i][Y] # "W"
            THEN failed("ValueError")
        ELSE IF \E j \in 1..Y : t[1][j] # "W" \/ t[X][j] # "W"
            THEN failed("ValueError")
        ELSE IF \E i \in 1..X : \E j \in 1..Y : t[i][j] \notin ValidTerrain
            THEN failed("ValueError")
        ELSE [exc |-> None,
              terrain |-> t,
              coordinates |-> [k \in 1..(X * Y) |-> <<((k - 1) \div Y) + 1, ((k - 1) % Y) + 1>>],
              cells |-> [i \in 1..X |-> [j \in 1..Y |-> Cell]]]

\* --------------------------------------------- Herbivore, Carnivore (animals.py)

\* None, where a number may stand instead.
NoValue == <<>>

\* The birth weights a log-normal draw may give.
BirthWeights == {6, 8}

\* Herbivore(age, weight) and Carnivore(age, weight): an animal of age 0 when
\* no age is given, of a drawn birth weight when no weight is given.
Animal(species, age, weight, draw) ==
    [species |-> species,
     age |-> IF age = NoValue THEN 0 ELSE age[1],
     w |-> IF weight = NoValue THEN draw ELSE weight[1]]

\* -------------------------------------------------------- Cell.add_animal

\* add_animal without the check of the species: what is no herbivore is
\* taken for a carnivore.
add_animal_unchecked(cell, species, age, weight, draws) ==
    LET a == Animal(species, age, weight, IF weight = NoValue THEN Head(draws) ELSE 0)
        rest == IF weight = NoValue THEN Tail(draws) ELSE draws
    IN  IF species = "Herbivore"
            THEN [exc |-> None,
                  cell |-> [cell EXCEPT !.Herbivores = Append(@, a)],
                  draws |-> rest]
            ELSE [exc |-> None,
                  cell |-> [cell EXCEPT !.Carnivores = Append(@, a)],
                  draws |-> rest]

\* The cell with an animal appended, or the exception raised.  draws are the
\* birth weights the random source gives next; the rest is handed back.
add_animal(cell, species, age, weight, draws) ==
    IF species \notin {"Herbivore", "Carnivore"}
        THEN [exc |-> "ValueError", cell |-> cell, draws |-> draws]
    ELSE LET a == Animal(species, age, weight, IF weight = NoValue THEN Head(draws) ELSE 0)
             rest == IF weight = NoValue THEN Tail(draws) ELSE draws
         IN  IF species = "Herbivore"
                 THEN [exc |-> None,
                       cell |-> [cell EXCEPT !.Herbivores = Append(@, a)],
                       draws |-> rest]
                 ELSE [exc |-> None,
                       cell |-> [cell EXCEPT !.Carnivores = Append(@, a)],
                       draws |-> rest]

\* Cell.reset_fodder
reset_fodder(cell) == [cell EXCEPT !.fodder = <<0>>]

\* -------------------------------------------------- Island.add_population

\* add_animals, were a carnivore to be dropped instead of added.
RECURSIVE add_animals_herbivores_only(_, _, _, _)
add_animals_herbivores_only(cs, loc, pop, draws) ==
    IF pop = <<>> THEN [exc |-> None, cells |-> cs, draws |-> draws]
    ELSE LET animal == Head(pop)
             age == IF "age" \notin DOMAIN animal THEN NoValue ELSE <<animal.age>>
             weight == IF "weight" \notin DOMAIN animal THEN NoValue ELSE <<animal.weight>>
             r == add_animal(cs[loc[1]][loc[2]], animal.species, age, weight, draws)
         IN  IF r.exc # None
                 THEN [exc |-> "ValueError", cells |-> cs, draws |-> draws]
             ELSE IF animal.species = "Carnivore"
                 THEN add_animals_herbivores_only(cs, loc, Tail(pop), r.draws)
             ELSE add_animals_herbivores_only([cs EXCEPT ![loc[1]][loc[2]] = r.cell],
                                              loc, Tail(pop), r.draws)

\* Lines 71-82: the animals of one entry, added one by one to the cell at loc.
\* Any exception of add_animal is raised again as a ValueError.
RECURSIVE add_animals(_, _, _, _)
add_animals(cs, loc, pop, draws) ==
    IF pop = <<>> THEN [exc |-> None, cells |-> cs, draws |-> draws]
    ELSE LET animal == Head(pop)
             age == IF "age" \notin DOMAIN animal THEN NoValue ELSE <<animal.age>>
             weight == IF "weight" \notin DOMAIN animal THEN NoValue ELSE <<animal.weight>>
             r == add_animal(cs[loc[1]][loc[2]], animal.species, age, weight, draws)
         IN  IF r.exc # None
                 THEN [exc |-> "ValueError", cells |-> cs, draws |-> draws]
                 ELSE add_animals([cs EXCEPT ![loc[1]][loc[2]] = r.cell],
                                  loc, Tail(pop), r.draws)

\* add_population without the check of the terrain (lines 68-70).
RECURSIVE add_population_in_water(_, _, _, _, _)
add_population_in_water(cs, terr, coords, pop, draws) ==
    IF pop = <<>> THEN [exc |-> None, cells |-> cs]
    ELSE LET animals == Head(pop)
             location == animals.loc
         IN  IF location \notin Range(coords)
                 THEN [exc |-> "ValueError", cells |-> cs]
             ELSE LET r == add_animals(cs, location, animals.pop, draws)
                  IN  IF r.exc # None
                          THEN [exc |-> r.exc, cells |-> r.cells]
                          ELSE add_population_in_water(r.cells, terr, coords, Tail(pop),
                                                       r.draws)

\* Lines 64-82: the entries in order; what was added before an exception stays.
RECURSIVE add_population(_, _, _, _, _)
add_population(cs, terr, coords, pop, draws) ==
    IF pop = <<>> THEN [exc |-> None, cells |-> cs]
    ELSE LET animals == Head(pop)
             location == animals.loc
         IN  IF location \notin Range(coords)
                 THEN [exc |-> "ValueError", cells |-> cs]
             ELSE IF terr[location[1]][location[2]] = "W"
                 THEN [exc |-> "ValueError", cells |-> cs]
             ELSE LET r == add_animals(cs, location, animals.pop, draws)
                  IN  IF r.exc # None
                          THEN [exc |-> r.exc, cells |-> r.cells]
                          ELSE add_population(r.cells, terr, coords, Tail(pop), r.draws)

\* ------------------------------------------------------- Island.n_animals

\* The dict n_animals returns: the lengths of the cells' lists, summed over
\* the rows and the cells of each row.
n_animals(cs) ==
    [type |-> "dict",
     Herbivores |-> SumSeq([i \in 1..Len(cs) |->
                        SumSeq([j \in 1..Len(cs[i]) |-> Len(cs[i][j].Herbivores)])]),
     Carnivores |-> SumSeq([i \in 1..Len(cs) |->
                        SumSeq([j \in 1..Len(cs[i]) |-> Len(cs[i][j].Carnivores)])])]

\* ------------------------------------------- Python's operators, by type

Raise(e) == [type |-> "raise", exc |-> e]

IsRaise(v) == v.type = "raise"

IsNumber(v) == v.type \in {"int", "float"}

PyInt == [type |-> "int"]

PyFloat == [type |-> "float"]

\* a * b: a number for two numbers, a TypeError for a number and a dict.
PyMul(a, b) ==
    IF IsRaise(a) THEN a
    ELSE IF IsRaise(b) THEN b
    ELSE IF IsNumber(a) /\ IsNumber(b)
        THEN (IF a.type = "int" /\ b.type = "int" THEN PyInt ELSE PyFloat)
    ELSE Raise("TypeError")

\* min(a, b): it compares b with a.
PyMin(a, b) ==
    IF IsRaise(a) THEN a
    ELSE IF IsRaise(b) THEN b
    ELSE IF IsNumber(a) /\ IsNumber(b) THEN PyFloat
    ELSE Raise("TypeError")

\* a > b: a bool for two numbers, a TypeError otherwise.
PyGt(a, b) ==
    IF IsRaise(a) THEN a
    ELSE IF IsRaise(b) THEN b
    ELSE IF IsNumber(a) /\ IsNumber(b) THEN [type |-> "bool"]
    ELSE Raise("TypeError")

\* random.random, the function itself: line 233 does not call it.
random_random == [type |-> "builtin_function_or_method"]

\* animal.gamma and animal.fitness (animals.py): floats.
Gamma(animal) == PyFloat

Fitness(animal) == PyFloat

\* ------------------------------------------------------- Island.procreate

\* Line 233: random.random > min(1, animal.gamma * animal.fitness * N)
BirthTest(animal, n) ==
    PyGt(random_random, PyMin(PyInt, PyMul(PyMul(Gamma(animal), Fitness(animal)), n)))

\* Line 235: lognormv(self).  lognormv is a method of Island and no name of
\* the module, so the call raises NameError.
lognormv_call(rnd) == Raise("NameError")

\* Lines 232-238 for the cell at p: todo is what is left of the list
\* cell.animals["Herbivores"] + cell.animals["Carnivores"], built when the
\* loop starts.  rnd.gt is what a comparison of two numbers at line 233 gives.
RECURSIVE procreate_animals(_, _, _, _, _, _)
procreate_animals(cs, p, todo, n, rnd, seen) ==
    IF todo = <<>>
        THEN [how |-> "next", exc |-> None, cells |-> cs, visited |-> seen]
    ELSE LET animal == Head(todo)
             test == BirthTest(animal, n)
             seen1 == Append(seen, [loc |-> p, species |-> animal.species])
         IN  IF IsRaise(test)
                 THEN [how |-> "raise", exc |-> test.exc, cells |-> cs, visited |-> seen1]
             ELSE IF rnd.gt
                 THEN [how |-> "return", exc |-> None, cells |-> cs, visited |-> seen1]
             ELSE LET baby_weight == lognormv_call(rnd)
                  IN  IF IsRaise(baby_weight)
                          THEN [how |-> "raise", exc |-> baby_weight.exc, cells |-> cs,
                                visited |-> seen1]
                      ELSE IF baby_weight.val > animal.w
                          THEN [how |-> "return", exc |-> None, cells |-> cs,
                                visited |-> seen1]
                      ELSE LET r == add_animal(cs[p[1]][p[2]], animal.species, <<0>>,
                                               <<baby_weight.val>>, <<>>)
                           IN  procreate_animals([cs EXCEPT ![p[1]][p[2]] = r.cell],
                                                 p, Tail(todo), n, rnd, seen1)

\* The positions of the cells in the order of the loops "for cells in
\* self.cells: for cell in cells".
RowMajor(cs) ==
    IF cs = <<>> THEN <<>>
    ELSE [k \in 1..(Len(cs) * Len(cs[1])) |->
            <<((k - 1) \div Len(cs[1])) + 1, ((k - 1) % Len(cs[1])) + 1>>]

\* Lines 229-238: the cells in order; a return or an exception ends the phase.
RECURSIVE procreate_cells(_, _, _, _, _)
procreate_cells(cs, todo, n, rnd, seen) ==
    IF todo = <<>> THEN [exc |-> None, cells |-> cs, visited |-> seen]
    ELSE LET p == Head(todo)
             cell == cs[p[1]][p[2]]
         IN  IF cell.Herbivores # <<>> \/ cell.Carnivores # <<>>
                 THEN LET r == procreate_animals(cs, p, cell.Herbivores \o cell.Carnivores,
                                                 n, rnd, seen)
                      IN  IF r.how = "next"
                              THEN procreate_cells(r.cells, Tail(todo), n, rnd, r.visited)
                              ELSE [exc |-> r.exc, cells |-> r.cells, visited |-> r.visited]
                 ELSE procreate_cells(cs, Tail(todo), n, rnd, seen)

\* procreate, were every animal to bear two newborns of its species.
procreate_twins(cs, rnd) ==
    LET newborn(species) == Animal(species, <<0>>, <<rnd.baby_weight>>, 0)
    IN  [exc |-> None,
         cells |-> [i \in 1..Len(cs) |-> [j \in 1..Len(cs[i]) |->
             [cs[i][j] EXCEPT
                 !.Herbivores = @ \o [k \in 1..(2 * Len(@)) |-> newborn("Herbivore")],
                 !.Carnivores = @ \o [k \in 1..(2 * Len(@)) |-> newborn("Carnivore")]]]],
         visited |-> <<>>,
         N |-> n_animals(cs)]

\* Line 228 takes N, the dict of the island's totals, before the loops.
procreate(cs, rnd) ==
    LET n == n_animals(cs)
        r == procreate_cells(cs, RowMajor(cs), n, rnd, <<>>)
    IN  [exc |-> r.exc, cells |-> r.cells, visited |-> r.visited, N |-> n]

\* ------------------------------------------- the other phases of the year

\* Island.feed: reset_fodder in every cell that holds an animal; the loops
\* over the animals do nothing.
feed(cs) ==
    [i \in 1..Len(cs) |-> [j \in 1..Len(cs[i]) |->
        IF cs[i][j].Herbivores # <<>> \/ cs[i][j].Carnivores # <<>>
            THEN reset_fodder(cs[i][j])
            ELSE cs[i][j]]]

\* Island.migrate, Island.aging, Island.weight_loss, Island.death: pass.
migrate(cs) == cs

aging(cs) == cs

weight_loss(cs) == cs

death(cs) == cs

\* ----------------------------------------------------------------- inputs

TerrainChars == {"W", "L", "D", "X", " "}

\* A map of water, of the given numbers of rows and columns.
Water(X, Y) == [i \in 1..X |-> [j \in 1..Y |-> "W"]]

\* The maps that differ from g in at most n characters.
RECURSIVE WithOdd(_, _)
WithOdd(g, n) ==
    IF n = 0 THEN {g}
    ELSE LET less == WithOdd(g, n - 1)
         IN  less \cup {[h EXCEPT ![i][j] = c] :
                           h \in less,
                           i \in 1..Len(g),
                           j \in 1..Len(g[1]),
                           c \in TerrainChars \ {"W"}}

\* g, g with one row pushed right by a space, g with one row cut by its
\* last character.
WithRowDefect(g) ==
    {g}
    \cup {[g EXCEPT ![i] = <<" ">> \o @] : i \in 1..Len(g)}
    \cup {[g EXCEPT ![i] = SubSeq(@, 1, Len(@) - 1)] : i \in {k \in 1..Len(g) : g[k] # <<>>}}

\* g with every row pushed right by a space.
Indented(g) == [i \in 1..Len(g) |-> <<" ">> \o g[i]]

\* The texts handed to Island(...) that are built on the map g: g with at
\* most one row pushed right or cut, as it is or indented.
Geographies(g) == UNION {{d, Indented(d)} : d \in WithRowDefect(g)}

\* WWWW / WLDW / WWWW
SampleGeography ==
    << <<"W", "W", "W", "W">>, <<"W", "L", "D", "W">>, <<"W", "W", "W", "W">> >>

\* The lowland cell, a water cell, a place off the map.
Locations == {<<2, 2>>, <<1, 1>>, <<4, 4>>}

Descriptors ==
    {[species |-> "Herbivore", age |-> 5, weight |-> 20],
     [species |-> "Carnivore"],
     [species |-> "Dog"]}

\* An entry with k descriptors.
Entries(k) == {[loc |-> l, pop |-> q] : l \in Locations, q \in [1..k -> Descriptors]}

NumDescriptors(batch) == SumSeq([k \in 1..Len(batch) |-> Len(batch[k].pop)])

\* The populations of entries that hold, together, at most n descriptors.
RECURSIVE BatchesWithin(_)
BatchesWithin(n) ==
    {<<>>} \cup UNION {{<<e>> \o b : e \in Entries(k), b \in BatchesWithin(n - k)} : k \in 1..n}

\* The populations handed to add_population and to Island(...).
Batches == BatchesWithin(MaxBatch)

\* The draws a batch can take: one per descriptor that gives no weight.
NumDraws(batch) ==
    SumSeq([k \in 1..Len(batch) |->
        Cardinality({d \in 1..Len(batch[k].pop) : "weight" \notin DOMAIN batch[k].pop[d]})])

DrawsFor(batch) == [1..NumDraws(batch) -> BirthWeights]

Total(cs) == n_animals(cs).Herbivores + n_animals(cs).Carnivores

NoN == [type |-> "NoneType"]

\* Whether a population has an entry off the map or in water, or a
\* descriptor of a species that is neither Herbivore nor Carnivore.
HasInvalid(batch, terr, coords) ==
    \E k \in 1..Len(batch) :
        \/ batch[k].loc \notin Range(coords)
        \/ terr[batch[k].loc[1]][batch[k].loc[2]] = "W"
        \/ \E d \in 1..Len(batch[k].pop) :
               batch[k].pop[d].species \notin {"Herbivore", "Carnivore"}

HasWater(batch, terr, coords) ==
    \E k \in 1..Len(batch) :
        /\ batch[k].loc \in Range(coords)
        /\ terr[batch[k].loc[1]][batch[k].loc[2]] = "W"

NumOf(batch, species) ==
    SumSeq([k \in 1..Len(batch) |->
        Cardinality({d \in 1..Len(batch[k].pop) : batch[k].pop[d].species = species})])

\* What the claims need to know of a population handed to add_population.
Given(batch, terr, coords) ==
    [invalid |-> HasInvalid(batch, terr, coords),
     water |-> HasWater(batch, terr, coords),
     Herbivores |-> NumOf(batch, "Herbivore"),
     Carnivores |-> NumOf(batch, "Carnivore")]

NotGiven == [invalid |-> FALSE, water |-> FALSE, Herbivores |-> 0, Carnivores |-> 0]

\* ---------------------------------------------------------------- actions

Init ==
    /\ geography = SampleGeography
    /\ built = FALSE
    /\ terrain = <<>>
    /\ coordinates = <<>>
    /\ cells = <<>>
    /\ pc = "Idle"
    /\ exc = None
    /\ N = NoN
    /\ visited = <<>>
    /\ op = "None"
    /\ given = NotGiven
    /\ prev = <<>>

\* Island.__init__(geography, ini_pop): terraform, then add_population when
\* ini_pop is given (the empty tuple stands for None and for []: neither adds
\* anything).  An exception leaves no Island object.
Construct(ini_pops) ==
    /\ ~built
    /\ pc = "Idle"
    /\ LET t == terraform(geography)
       IN  \E ini_pop \in ini_pops : \E draws \in DrawsFor(ini_pop) :
             LET a == IF t.exc = None
                          THEN add_population(t.cells, t.terrain, t.coordinates, ini_pop, draws)
                          ELSE [exc |-> t.exc, cells |-> <<>>]
             IN  /\ exc' = a.exc
                 /\ built' = (a.exc = None)
                 /\ terrain' = IF a.exc = None THEN t.terrain ELSE <<>>
                 /\ coordinates' = IF a.exc = None THEN t.coordinates ELSE <<>>
                 /\ cells' = IF a.exc = None THEN a.cells ELSE <<>>
    /\ op' = "Island"
    /\ given' = NotGiven
    /\ prev' = <<>>
    /\ UNCHANGED <<geography, pc, N, visited>>

\* Island.add_population(population), called between two years.
AddPopulation ==
    /\ built
    /\ pc = "Idle"
    /\ \E room \in {MaxAnimals - Total(cells)} :
         \E batch \in Batches :
             /\ NumDescriptors(batch) <= room
             /\ \E draws \in DrawsFor(batch) :
                   LET r == add_population(cells, terrain, coordinates, batch, draws)
                   IN  /\ cells' = r.cells
                       /\ exc' = r.exc
                       /\ given' = Given(batch, terrain, coordinates)
    /\ op' = "add_population"
    /\ prev' = <<>>
    /\ UNCHANGED <<geography, built, terrain, coordinates, pc, N, visited>>

\* Island.yearly_cycle is called and enters its first phase.
YearlyCycle ==
    /\ built
    /\ pc = "Idle"
    /\ pc' = "Procreating"
    /\ op' = "yearly_cycle"
    /\ exc' = None
    /\ given' = NotGiven
    /\ prev' = cells
    /\ N' = NoN
    /\ visited' = <<>>
    /\ UNCHANGED <<geography, built, terrain, coordinates, cells>>

\* Line 267: self.procreate().  An exception leaves yearly_cycle.
Procreate(rnd) ==
    /\ pc = "Procreating"
    /\ LET r == procreate(cells, rnd)
       IN  /\ cells' = r.cells
           /\ N' = r.N
           /\ visited' = r.visited
           /\ exc' = r.exc
           /\ pc' = IF r.exc = None THEN "Feeding" ELSE "Idle"
    /\ UNCHANGED <<geography, built, terrain, coordinates, op, given, prev>>

\* Line 271: self.feed()
Feed ==
    /\ pc = "Feeding"
    /\ cells' = feed(cells)
    /\ pc' = "Migrating"
    /\ UNCHANGED <<geography, built, terrain, coordinates, exc, N, visited, op, given, prev>>

\* Line 275: self.migrate()
Migrate ==
    /\ pc = "Migrating"
    /\ cells' = migrate(cells)
    /\ pc' = "Aging"
    /\ UNCHANGED <<geography, built, terrain, coordinates, exc, N, visited, op, given, prev>>

\* Line 279: self.aging()
Aging ==
    /\ pc = "Aging"
    /\ cells' = aging(cells)
    /\ pc' = "LosingWeight"
    /\ UNCHANGED <<geography, built, terrain, coordinates, exc, N, visited, op, given, prev>>

\* Line 283: self.weight_loss()
WeightLoss ==
    /\ pc = "LosingWeight"
    /\ cells' = weight_loss(cells)
    /\ pc' = "Dying"
    /\ UNCHANGED <<geography, built, terrain, coordinates, exc, N, visited, op, given, prev>>

\* Line 287: self.death(), and yearly_cycle returns.
Death ==
    /\ pc = "Dying"
    /\ cells' = death(cells)
    /\ pc' = "Idle"
    /\ UNCHANGED <<geography, built, terrain, coordinates, exc, N, visited, op, given, prev>>

\* Island.feed(), called on its own between two years.
CallFeed ==
    /\ built
    /\ pc = "Idle"
    /\ cells' = feed(cells)
    /\ op' = "feed"
    /\ exc' = None
    /\ given' = NotGiven
    /\ prev' = cells
    /\ N' = NoN
    /\ visited' = <<>>
    /\ UNCHANGED <<geography, built, terrain, coordinates, pc>>

Next ==
    \/ Construct(Batches)
    \/ AddPopulation
    \/ CallFeed
    \/ YearlyCycle
    \/ \E gt \in BOOLEAN : \E w \in BirthWeights : Procreate([gt |-> gt, baby_weight |-> w])
    \/ Feed
    \/ Migrate
    \/ Aging
    \/ WeightLoss
    \/ Death

Spec == Init /\ [][Next]_vars

\* The constructor alone, over the texts within the bounds.
\* The maps are of at most MaxRows rows and MaxCols columns, water but for
\* at most MaxOdd characters.
InitTerraform ==
    /\ \E X \in 1..MaxRows : \E Y \in 0..MaxCols :
         \E g \in WithOdd(Water(X, Y), MaxOdd) : geography \in Geographies(g)
    /\ built = FALSE
    /\ terrain = <<>>
    /\ coordinates = <<>>
    /\ cells = <<>>
    /\ pc = "Idle"
    /\ exc = None
    /\ N = NoN
    /\ visited = <<>>
    /\ op = "None"
    /\ given = NotGiven
    /\ prev = <<>>

NextTerraform == op = "None" /\ Construct({<<>>})

SpecTerraform == InitTerraform /\ [][NextTerraform]_vars

\* ----------------------------------------------------------------- claims

Keys == {"Herbivores", "Carnivores"}

Key(species) == IF species = "Herbivore" THEN "Herbivores" ELSE "Carnivores"

\* The places of the animals held in the cells: row, column, list, index.
Places(cs) ==
    {<<i, j, key, k>> \in (1..Len(cs)) \X (1..(IF cs = <<>> THEN 0 ELSE Len(cs[1])))
                          \X Keys \X (1..MaxAnimals + MaxAnimals) :
        k <= Len(cs[i][j][key])}

At(cs, q) == cs[q[1]][q[2]][q[3]][q[4]]

\* C1: add_population is all-or-nothing: a call whose population holds an
\* entry off the map or in water, or a descriptor of an unknown species,
\* leaves the animals of every cell as they were before the call.
C1_AllOrNothing ==
    [][(op' = "add_population" /\ given'.invalid) => cells' = cells]_vars

\* C2, as stated: terraform succeeds iff the rows of the text have equal
\* length, every character of the border is W and every character is one of
\* W, L, H, D; in every other case it raises ValueError and builds no Island.
RawRectangular == \A i \in 1..Len(geography) : Len(geography[i]) = Len(geography[1])

RawBorderWater ==
    /\ \A i \in 1..Len(geography) : \A j \in 1..Len(geography[i]) :
          (i \in {1, Len(geography)} \/ j \in {1, Len(geography[i])})
              => geography[i][j] = "W"

RawAllValid ==
    \A i \in 1..Len(geography) : \A j \in 1..Len(geography[i]) :
        geography[i][j] \in {"W", "L", "H", "D"}

C2_AsStated ==
    (op = "Island" /\ Len(geography) >= 2) =>
        IF RawRectangular /\ RawBorderWater /\ RawAllValid
            THEN exc = None /\ built
            ELSE exc = "ValueError" /\ ~built

\* C2, amended: with the rows taken after textwrap.dedent, terraform succeeds
\* iff the rows are not empty, have equal length, every character of the
\* border is W and every character is one of W, L, H, D; it raises IndexError
\* when every row is empty and ValueError in every other case, and an Island
\* is built only when it succeeds.
Rows == dedent(geography)

RowsRectangular == \A i \in 1..Len(Rows) : Len(Rows[i]) = Len(Rows[1])

RowsBorderWater ==
    \A i \in 1..Len(Rows) : \A j \in 1..Len(Rows[i]) :
        (i \in {1, Len(Rows)} \/ j \in {1, Len(Rows[i])}) => Rows[i][j] = "W"

RowsAllValid ==
    \A i \in 1..Len(Rows) : \A j \in 1..Len(Rows[i]) : Rows[i][j] \in {"W", "L", "H", "D"}

C2_Terraform ==
    op = "Island" =>
        /\ built <=> exc = None
        /\ exc = (IF ~RowsRectangular THEN "ValueError"
                  ELSE IF Rows[1] = <<>> THEN "IndexError"
                  ELSE IF RowsBorderWater /\ RowsAllValid THEN None
                  ELSE "ValueError")
        /\ built => /\ terrain = Rows
                    /\ Len(cells) = Len(Rows)
                    /\ \A i \in 1..Len(Rows) : Len(cells[i]) = Len(Rows[i])

\* An island of three rows and three columns with a land cell in the middle.
C2_Witness ==
    /\ op = "Island"
    /\ built
    /\ Len(terrain) = 3
    /\ Len(terrain[2]) = 3
    /\ terrain[2][2] = "L"

\* C3: add_population raises ValueError whenever an entry is off the map or
\* in water or a descriptor names an unknown species, and raises nothing
\* when every entry is on land with known species.
C3_Raises ==
    op = "add_population" => exc = (IF given.invalid THEN "ValueError" ELSE None)

\* A call that raised for a population that also held a herbivore.
C3_Witness ==
    /\ op = "add_population"
    /\ given.invalid
    /\ given.Herbivores > 0
    /\ exc = "ValueError"

\* C4: n_animals gives for each species the number of animals of that
\* species held in the cells, and a successful add_population raises each
\* species' count by the number of descriptors of that species it was given.
Held(cs, species) == Cardinality({q \in Places(cs) : At(cs, q).species = species})

C4_CountsHeld ==
    /\ n_animals(cells).Herbivores = Held(cells, "Herbivore")
    /\ n_animals(cells).Carnivores = Held(cells, "Carnivore")

C4_Grows ==
    (op' = "add_population" /\ exc' = None) =>
        /\ n_animals(cells').Herbivores = n_animals(cells).Herbivores + given'.Herbivores
        /\ n_animals(cells').Carnivores = n_animals(cells).Carnivores + given'.Carnivores

C4_Counts == [](C4_CountsHeld) /\ [][C4_Grows]_vars

\* A successful call that added a herbivore and a carnivore.
C4_Witness ==
    /\ op = "add_population"
    /\ exc = None
    /\ given.Herbivores = 1
    /\ given.Carnivores = 1
    /\ n_animals(cells).Carnivores >= 1

\* C5: every yearly_cycle goes through Procreating, Feeding, Migrating,
\* Aging, LosingWeight, Dying in that order and back to Idle; no phase is
\* skipped, repeated or reordered.
CycleOrder ==
    {<<"Idle", "Procreating">>, <<"Procreating", "Feeding">>, <<"Feeding", "Migrating">>,
     <<"Migrating", "Aging">>, <<"Aging", "LosingWeight">>, <<"LosingWeight", "Dying">>,
     <<"Dying", "Idle">>}

C5_PhaseOrder == [][pc' # pc => <<pc, pc'>> \in CycleOrder]_vars

\* C6: on an island built from a valid terrain and population, yearly_cycle
\* raises no exception.
C6_NoException == op = "yearly_cycle" => exc = None

\* C7: the N of an animal's birth probability is the number of animals of
\* its own species in its own cell at the start of the procreation phase.
C7_OwnCellOwnSpecies ==
    \A k \in 1..Len(visited) :
        N = [type |-> "int",
             val |-> Len(prev[visited[k].loc[1]][visited[k].loc[2]][Key(visited[k].species)])]

C10_OlderAndLighter ==
    (op = "yearly_cycle" /\ pc = "Idle") =>
        \A q \in Places(prev) :
            /\ At(cells, q).age = At(prev, q).age + 1
            /\ At(cells, q).w < At(prev, q).w

\* The parameters of the feeding phase, which island.py does not hold: the
\* appetite F of a herbivore, its beta in tenths, and the fodder capacity
\* f_max of a terrain type (Lowland > Highland > Desert = 0).
Appetite == 10

BetaTenths == 9

FodderCapacity(t) == IF t = "L" THEN 10 ELSE IF t = "H" THEN 5 ELSE 0

\* What is left in a cell after its first k herbivores have each eaten
\* min(F, fodder left), and what the k-th of them eats.
RECURSIVE FodderLeft(_, _)
FodderLeft(capacity, k) ==
    IF k = 0 THEN capacity
    ELSE FodderLeft(capacity, k - 1) - Min({Appetite, FodderLeft(capacity, k - 1)})

EatenBy(capacity, k) == Min({Appetite, FodderLeft(capacity, k - 1)})

\* C11: after feeding, each herbivore has eaten min(F, fodder left in its
\* cell), the fodder of its cell has dropped from the capacity by what was
\* eaten, and its weight has risen by beta times what it ate; in a cell of
\* capacity 10 with one herbivore of appetite 10 the fodder is 0 and the
\* gain is beta * 10.
C11_Feeding ==
    op = "feed" =>
        \A i \in 1..Len(cells) : \A j \in 1..Len(cells[i]) :
            LET capacity == FodderCapacity(terrain[i][j])
                before == prev[i][j].Herbivores
                after == cells[i][j].Herbivores
            IN  before # <<>> =>
                    /\ cells[i][j].fodder = <<FodderLeft(capacity, Len(before))>>
                    /\ \A k \in 1..Len(before) :
                           10 * (after[k].w - before[k].w)
                               = BetaTenths * EatenBy(capacity, k)

\* The feeding phase of the last call has run to its end.
Fed ==
    \/ op = "feed"
    \/ op = "yearly_cycle" /\ exc = None /\ pc \notin {"Procreating", "Feeding"}

\* C12: after the feeding phase every land cell, with or without animals,
\* has a fodder, which is no less than 0; where no herbivore has eaten it is
\* the capacity of the terrain, more than 0 in Lowland and 0 in Desert.
C12_ResetFodder ==
    Fed =>
        \A i \in 1..Len(cells) : \A j \in 1..Len(cells[i]) :
            terrain[i][j] # "W" =>
                /\ cells[i][j].fodder # NoFodder
                /\ cells[i][j].fodder[1] >= 0
                /\ (terrain[i][j] = "L" /\ cells[i][j].Herbivores = <<>>)
                       => cells[i][j].fodder[1] > 0
                /\ terrain[i][j] = "D" => cells[i][j].fodder[1] = 0

\* The birth attempts the procreation phase has made in the cell at <<i, j>>
\* for animals of the given species.
Attempts(i, j, species) ==
    Cardinality({k \in 1..Len(visited) :
                    visited[k].loc = <<i, j>> /\ visited[k].species = species})

\* C13: the procreation phase makes a birth attempt for every animal that
\* was on the island when it began, in every cell, whatever became of the
\* attempts before it.
C13_VisitsEvery ==
    (op = "yearly_cycle" /\ pc # "Procreating") =>
        \A i \in 1..Len(prev) : \A j \in 1..Len(prev[i]) :
            /\ Attempts(i, j, "Herbivore") = Len(prev[i][j].Herbivores)
            /\ Attempts(i, j, "Carnivore") = Len(prev[i][j].Carnivores)

\* C14: on an island built and populated by any calls of Island(...),
\* add_population (failed ones too), feed and yearly_cycle, every cell whose
\* terrain is water holds no herbivore and no carnivore.
C14_WaterEmpty ==
    \A i \in 1..Len(cells) : \A j \in 1..Len(cells[i]) :
        terrain[i][j] = "W" =>
            /\ cells[i][j].Herbivores = <<>>
            /\ cells[i][j].Carnivores = <<>>

\* A call of add_population that named a water cell, on an island that
\* holds animals.
C14_Witness ==
    /\ op = "add_population"
    /\ given.water
    /\ exc = "ValueError"
    /\ Total(cells) > 0

====
